---- MODULE Spec2Model ----
(***************************************************************************)
(* Model of the NewsScraper collection pipeline:                           *)
(*   - app/services/batch_processor.py  BatchProcessor (fetch orchestrator)*)
(*   - app/routers/runs.py              _execute_factiva_pipeline          *)
(*   - app/services/insurer_matcher.py  InsurerMatcher                     *)
(*   - app/services/relevance_scorer.py RelevanceScorer                    *)
(*   - app/auth/token_manager.py        TokenManager                       *)
(***************************************************************************)
EXTENDS Integers, Sequences, FiniteSets, TLC

----------------------------------------------------------------------------
(* Bounds of the batch processor model *)

MaxInsurers == 2
MaxBatchSize == 2
MaxConcurrent == 2
MaxSources == 2
MaxItems == 1

VARIABLES
    (* BatchProcessor configuration and the arguments of process_insurers *)
    insurers,          \* number of entities in the input list (entities are 1..insurers)
    malformed,         \* entities whose _scrape_insurer raises before its first source call
    batch_size,
    max_concurrent,
    sources,           \* number of configured sources, len(self.sources)
    db,                \* TRUE when run and db are supplied
    progress_callback, \* TRUE when a progress callback is supplied
    (* process_insurers' own position and locals *)
    pc,
    batch_start,       \* 0-based index of the current batch's first entity
    results,           \* final_results of the current batch
    ridx,              \* position of the "for result in results" loop
    progress,          \* the BatchProgress
    (* _process_batch: the semaphore and one task per entity *)
    semaphore,
    task,
    (* effects observed by collaborators *)
    stored,            \* stored[i]: items of entity i flushed to the database
    run_record,        \* run.insurers_processed / run.items_found as committed
    callbacks,         \* processed_insurers seen at each progress callback
    sleeps,            \* number of inter-batch sleeps done
    dbFault            \* TRUE once a storage write (flush or commit) has raised

bvars == <<insurers, malformed, batch_size, max_concurrent, sources, db,
           progress_callback, pc, batch_start, results, ridx, progress,
           semaphore, task, stored, run_record, callbacks, sleeps, dbFault>>

VARIABLES
    (* _execute_factiva_pipeline: its inputs, position and locals *)
    collected,         \* the articles the collector returned
    category,          \* request.category
    ai_enabled,        \* InsurerMatcher.ai_enabled
    sentinel,          \* category of the insurer with ans_code "000000", "none" without one
    ppc,
    articles,
    matching,          \* the insurers loaded for matching
    general_insurer,   \* id of the sentinel insurer, 0 before it is looked up
    match_results,
    sidx,              \* position of the "for article, match in zip(...)" loop
    news_items,        \* the NewsItem rows added to the session, in order
    committed,         \* TRUE once the rows are committed
    ai_calls           \* ai_calls[k]: ai_match invocations made for article k

pvars == <<collected, category, ai_enabled, sentinel, ppc, articles, matching,
           general_insurer, match_results, sidx, news_items, committed, ai_calls>>

VARIABLES
    matcher,           \* a call of InsurerMatcher._deterministic_match on given texts
    scorer,            \* a RelevanceScorer and its score_batch call
    token_manager,     \* a TokenManager and its get_token call
    processor          \* a BatchProcessor() call: its arguments and the object built

ovars == <<matcher, scorer, token_manager, processor>>

vars == <<bvars, pvars, ovars>>

Entities == 1..insurers

Min(a, b) == IF a < b THEN a ELSE b

\* batch_end = min(batch_start + self.batch_size, len(insurers))
batch_end == Min(batch_start + batch_size, insurers)

\* batch = insurers[batch_start:batch_end]
batch == (batch_start + 1)..batch_end

\* the batch an entity belongs to: batch_num = (batch_start // batch_size) + 1
BatchOf(i) == ((i - 1) \div batch_size) + 1

\* all_failed: no source has answered this entity without raising (not kept by
\* the code, which only logs a source failure)
NoTask == [st |-> "none", src |-> 0, items |-> 0, all_failed |-> TRUE]

NewProgress(n) == [total_insurers |-> n, processed_insurers |-> 0,
                   total_items_found |-> 0, errors |-> <<>>]

\* entity scrape tasks that hold the semaphore and are inside _scrape_insurer
InFlight == {i \in Entities : task[i].st = "scraping"}

Finished(i) == task[i].st \in {"result", "exception"}

\* no pipeline run is going on
PipelineIdle ==
    /\ collected = <<>>
    /\ category = "Health"
    /\ ai_enabled = FALSE
    /\ sentinel = "none"
    /\ ppc = "idle"
    /\ articles = <<>>
    /\ matching = <<>>
    /\ general_insurer = 0
    /\ match_results = <<>>
    /\ sidx = 0
    /\ news_items = <<>>
    /\ committed = FALSE
    /\ ai_calls = <<>>

\* no matcher, scorer or token manager call is going on
MatcherIdle == matcher = [pc |-> "idle"]

ScorerIdle == scorer = [pc |-> "idle"]

TokenIdle == token_manager = [pc |-> "idle"]

ProcessorIdle == processor = [pc |-> "idle"]

OthersIdle == MatcherIdle /\ ScorerIdle /\ TokenIdle /\ ProcessorIdle

InitBatch ==
    /\ insurers \in 0..MaxInsurers
    /\ malformed \in SUBSET (1..insurers)
    /\ batch_size \in 1..MaxBatchSize
    /\ max_concurrent \in 1..MaxConcurrent
    /\ sources \in 0..MaxSources
    /\ db \in BOOLEAN
    /\ progress_callback \in BOOLEAN
    /\ pc = "call"
    /\ batch_start = 0
    /\ results = <<>>
    /\ ridx = 0
    /\ progress = NewProgress(0)
    /\ semaphore = 0
    /\ task = [i \in 1..MaxInsurers |-> NoTask]
    /\ stored = [i \in 1..MaxInsurers |-> 0]
    /\ run_record = [insurers_processed |-> 0, items_found |-> 0]
    /\ callbacks = <<>>
    /\ sleeps = 0
    /\ dbFault = FALSE
    /\ PipelineIdle
    /\ OthersIdle

----------------------------------------------------------------------------
(* BatchProcessor.process_insurers and its tasks *)

ProcessInsurers_sourcesUnchecked ==
    /\ pc = "call"
    /\ progress' = NewProgress(insurers)
    /\ pc' = IF insurers = 0 THEN "returned" ELSE "batch"
    /\ UNCHANGED <<pvars, ovars, insurers, malformed, batch_size, max_concurrent, sources, db,
                   progress_callback, batch_start, results, ridx, semaphore, task,
                   stored, run_record, callbacks, sleeps, dbFault>>

\* process_insurers, up to the batch loop: the BatchProgress is created and
\* the two early returns are taken
ProcessInsurers ==
    /\ pc = "call"
    /\ IF insurers = 0
       THEN /\ progress' = NewProgress(insurers)
            /\ pc' = "returned"
       ELSE IF sources = 0
       THEN /\ progress' = [NewProgress(insurers) EXCEPT
                   !.errors = <<[insurer |-> 0, error |-> "No news sources configured"]>>]
            /\ pc' = "returned"
       ELSE /\ progress' = NewProgress(insurers)
            /\ pc' = "batch"
    /\ UNCHANGED <<pvars, ovars, insurers, malformed, batch_size, max_concurrent, sources, db,
                   progress_callback, batch_start, results, ridx, semaphore, task,
                   stored, run_record, callbacks, sleeps, dbFault>>

SemaphoreSize_batch == batch_size

\* semaphore = asyncio.Semaphore(self.max_concurrent)
SemaphoreSize == max_concurrent

\* the head of the batch loop and _process_batch up to the gather: a fresh
\* semaphore, and one process_with_limit task per entity of the batch
ProcessBatch ==
    /\ pc = "batch"
    /\ semaphore' = SemaphoreSize
    /\ task' = [i \in 1..MaxInsurers |->
                   IF i \in batch THEN [NoTask EXCEPT !.st = "waiting"] ELSE task[i]]
    /\ results' = <<>>
    /\ ridx' = 0
    /\ pc' = "gather"
    /\ UNCHANGED <<pvars, ovars, insurers, malformed, batch_size, max_concurrent, sources, db,
                   progress_callback, batch_start, progress, stored, run_record,
                   callbacks, sleeps, dbFault>>

\* "async with semaphore" is entered only while the semaphore's value is positive
SemaphoreFree == semaphore > 0

\* process_with_limit(i) acquires the semaphore and _scrape_insurer runs up to
\* its first await: a malformed entity raises while the result and the query
\* are built (the semaphore is released on the way out), any other entity is
\* now awaiting its first source
Acquire(i) ==
    /\ pc = "gather"
    /\ i \in batch
    /\ task[i].st = "waiting"
    /\ SemaphoreFree
    /\ IF i \in malformed
       THEN /\ task' = [task EXCEPT ![i].st = "exception"]
            /\ UNCHANGED semaphore
       ELSE /\ task' = [task EXCEPT ![i].st = "scraping", ![i].src = 1]
            /\ semaphore' = semaphore - 1
    /\ UNCHANGED <<pvars, ovars, insurers, malformed, batch_size, max_concurrent, sources, db,
                   progress_callback, pc, batch_start, results, ridx, progress,
                   stored, run_record, callbacks, sleeps, dbFault>>

\* the "for source in self.sources" loop moves on: to the next source, or out
\* of the loop, where the result is returned and the semaphore released
NextSource(i, t) ==
    IF t.src = sources
    THEN /\ task' = [task EXCEPT ![i] = [t EXCEPT !.st = "result"]]
         /\ semaphore' = semaphore + 1
    ELSE /\ task' = [task EXCEPT ![i] = [t EXCEPT !.src = @ + 1]]
         /\ UNCHANGED semaphore

\* source.search returns k items: result.items.extend(items)
SourceReturns(i, k) ==
    /\ task[i].st = "scraping"
    /\ NextSource(i, [task[i] EXCEPT !.items = @ + k, !.all_failed = FALSE])
    /\ UNCHANGED <<pvars, ovars, insurers, malformed, batch_size, max_concurrent, sources, db,
                   progress_callback, pc, batch_start, results, ridx, progress,
                   stored, run_record, callbacks, sleeps, dbFault>>

SourceRaises_abortsEntity(i) ==
    /\ task[i].st = "scraping"
    /\ task' = [task EXCEPT ![i].st = "exception"]
    /\ semaphore' = semaphore + 1
    /\ UNCHANGED <<pvars, ovars, insurers, malformed, batch_size, max_concurrent, sources, db,
                   progress_callback, pc, batch_start, results, ridx, progress,
                   stored, run_record, callbacks, sleeps, dbFault>>

\* source.search raises: caught and logged, the loop continues
SourceRaises(i) ==
    /\ task[i].st = "scraping"
    /\ NextSource(i, task[i])
    /\ UNCHANGED <<pvars, ovars, insurers, malformed, batch_size, max_concurrent, sources, db,
                   progress_callback, pc, batch_start, results, ridx, progress,
                   stored, run_record, callbacks, sleeps, dbFault>>

ReturnExceptions_false == FALSE

\* asyncio.gather(..., return_exceptions=True)
ReturnExceptions == TRUE

GatherReady_notAwaited == TRUE

\* the gather is done when every task of the batch is
GatherReady == \A i \in batch : Finished(i)

FinalResults_dropExceptions ==
    LET ok == SelectSeq([k \in 1..(batch_end - batch_start) |-> batch_start + k],
                        LAMBDA i : task[i].st # "exception")
    IN [k \in 1..Len(ok) |->
           [insurer_id |-> ok[k], items |-> task[ok[k]].items, error |-> "None"]]

FinalResults_reversed ==
    [k \in 1..(batch_end - batch_start) |->
        LET i == batch_start + k
            j == batch_end + 1 - k
        IN IF task[j].st = "exception"
           THEN [insurer_id |-> i, items |-> 0, error |-> "scrape raised"]
           ELSE [insurer_id |-> i, items |-> task[j].items, error |-> "None"]]

\* "Convert exceptions to InsurerResult": zip(insurers, results), positionally
FinalResults ==
    [k \in 1..(batch_end - batch_start) |->
        LET i == batch_start + k
        IN IF task[i].st = "exception"
           THEN [insurer_id |-> i, items |-> 0, error |-> "scrape raised"]
           ELSE [insurer_id |-> i, items |-> task[i].items, error |-> "None"]]

\* the gather returns and _process_batch builds final_results; without
\* return_exceptions the first exception of a task would leave process_insurers
GatherDone ==
    /\ pc = "gather"
    /\ GatherReady
    /\ IF ~ReturnExceptions /\ \E i \in batch : task[i].st = "exception"
       THEN /\ pc' = "raised"
            /\ UNCHANGED <<results, ridx>>
       ELSE /\ results' = FinalResults
            /\ ridx' = 1
            /\ pc' = "fold"
    /\ UNCHANGED <<pvars, ovars, insurers, malformed, batch_size, max_concurrent, sources, db,
                   progress_callback, batch_start, progress, semaphore, task,
                   stored, run_record, callbacks, sleeps, dbFault>>

UpdateProgress_lastItems(result) ==
    [progress EXCEPT
        !.processed_insurers = @ + 1,
        !.total_items_found = result.items,
        !.errors = IF result.error # "None"
                   THEN Append(@, [insurer |-> result.insurer_id, error |-> result.error])
                   ELSE @]

\* "Update progress": the body of "for result in results" up to _store_items
UpdateProgress(result) ==
    [progress EXCEPT
        !.processed_insurers = @ + 1,
        !.total_items_found = @ + result.items,
        !.errors = IF result.error # "None"
                   THEN Append(@, [insurer |-> result.insurer_id, error |-> result.error])
                   ELSE @]

\* one round of "for result in results": the progress is updated and, with a
\* run and a db, _store_items adds the items and flushes (flushOk: the flush
\* does not raise; there is a flush only when the result has items)
FoldResult(flushOk) ==
    /\ pc = "fold"
    /\ ridx <= Len(results)
    /\ LET result == results[ridx]
       IN /\ progress' = UpdateProgress(result)
          /\ IF db /\ result.items > 0 /\ ~flushOk
             THEN /\ pc' = "raised"
                  /\ dbFault' = TRUE
                  /\ UNCHANGED <<stored, ridx>>
             ELSE /\ stored' = IF db
                               THEN [stored EXCEPT ![result.insurer_id] = @ + result.items]
                               ELSE stored
                  /\ ridx' = ridx + 1
                  /\ UNCHANGED <<pc, dbFault>>
    /\ UNCHANGED <<pvars, ovars, insurers, malformed, batch_size, max_concurrent, sources, db,
                   progress_callback, batch_start, results, semaphore, task,
                   run_record, callbacks, sleeps>>

\* "Update run record if provided": the counters are copied and committed
UpdateRun(commitOk) ==
    /\ pc = "fold"
    /\ ridx > Len(results)
    /\ IF db /\ ~commitOk
       THEN /\ pc' = "raised"
            /\ dbFault' = TRUE
            /\ UNCHANGED run_record
       ELSE /\ run_record' = IF db
                             THEN [insurers_processed |-> progress.processed_insurers,
                                   items_found |-> progress.total_items_found]
                             ELSE run_record
            /\ pc' = "callback"
            /\ UNCHANGED dbFault
    /\ UNCHANGED <<pvars, ovars, insurers, malformed, batch_size, max_concurrent, sources, db,
                   progress_callback, batch_start, results, ridx, progress,
                   semaphore, task, stored, callbacks, sleeps>>

ProgressCallback_lastBatchOnly ==
    /\ pc = "callback"
    /\ callbacks' = IF progress_callback /\ ~(batch_end < insurers)
                    THEN Append(callbacks, progress.processed_insurers)
                    ELSE callbacks
    /\ pc' = "delay"
    /\ UNCHANGED <<pvars, ovars, insurers, malformed, batch_size, max_concurrent, sources, db,
                   progress_callback, batch_start, results, ridx, progress,
                   semaphore, task, stored, run_record, sleeps, dbFault>>

\* "Call progress callback if provided"
ProgressCallback ==
    /\ pc = "callback"
    /\ callbacks' = IF progress_callback
                    THEN Append(callbacks, progress.processed_insurers)
                    ELSE callbacks
    /\ pc' = "delay"
    /\ UNCHANGED <<pvars, ovars, insurers, malformed, batch_size, max_concurrent, sources, db,
                   progress_callback, batch_start, results, ridx, progress,
                   semaphore, task, stored, run_record, sleeps, dbFault>>

MoreBatches_always == TRUE

\* "if batch_end < len(insurers)"
MoreBatches == batch_end < insurers

\* "Delay between batches (except for last batch)", then the next batch
Sleep ==
    /\ pc = "delay"
    /\ MoreBatches
    /\ sleeps' = sleeps + 1
    /\ batch_start' = batch_start + batch_size
    /\ pc' = "batch"
    /\ UNCHANGED <<pvars, ovars, insurers, malformed, batch_size, max_concurrent, sources, db,
                   progress_callback, results, ridx, progress, semaphore, task,
                   stored, run_record, callbacks, dbFault>>

\* the loop ends after the last batch and the progress is returned
Return ==
    /\ pc = "delay"
    /\ ~(batch_end < insurers)
    /\ pc' = "returned"
    /\ UNCHANGED <<pvars, ovars, insurers, malformed, batch_size, max_concurrent, sources, db,
                   progress_callback, batch_start, results, ridx, progress,
                   semaphore, task, stored, run_record, callbacks, sleeps, dbFault>>

NextBatch ==
    \/ ProcessInsurers
    \/ ProcessBatch
    \/ \E i \in 1..MaxInsurers : Acquire(i)
    \/ \E i \in 1..MaxInsurers, k \in 0..MaxItems : SourceReturns(i, k)
    \/ \E i \in 1..MaxInsurers : SourceRaises(i)
    \/ GatherDone
    \/ \E flushOk \in BOOLEAN : FoldResult(flushOk)
    \/ \E commitOk \in BOOLEAN : UpdateRun(commitOk)
    \/ ProgressCallback
    \/ Sleep
    \/ Return

SpecBatch == InitBatch /\ [][NextBatch]_vars

\* every source call eventually returns or raises, and the event loop keeps
\* running whatever coroutine is ready
FairBatch == SpecBatch /\ WF_vars(NextBatch)

----------------------------------------------------------------------------
(* Claims about the batch processor *)

\* an entity's scrape has started: its task has entered _scrape_insurer
Started(i) == task[i].st \in {"scraping", "result", "exception"}

\* the entity's result has been folded into the BatchProgress
Folded(i) == i <= progress.processed_insurers

\* C1: at every instant the number of entity scrape tasks in flight is at most
\* max_concurrent, whatever the number of entities and the batch size
C1_ConcurrencyBound == Cardinality(InFlight) <= max_concurrent

\* a batch larger than max_concurrent, with max_concurrent scrapes in flight
\* and another entity of the batch kept waiting
C1_Witness ==
    /\ batch_size > max_concurrent
    /\ Cardinality(InFlight) = max_concurrent
    /\ \E i \in batch : task[i].st = "waiting"

\* C2: when process_insurers returns, with at least one source configured,
\* processed_insurers is the number of input entities, whichever scrapes raised
C2_AllEntitiesCounted ==
    (pc = "returned" /\ sources >= 1) => progress.processed_insurers = insurers

\* a run that returned although the scrape of some entity, but not of every
\* entity, raised
C2_Witness ==
    /\ pc = "returned"
    /\ sources >= 1
    /\ malformed # {}
    /\ malformed # Entities
    /\ progress.processed_insurers = insurers

\* C3: whatever sources fail and whichever scrapes raise, process_insurers
\* never raises to its caller and eventually returns (a storage write that
\* raises is another kind of failure and is left out)
C3_AlwaysCompletes ==
    /\ [](pc = "raised" => dbFault)
    /\ <>(pc = "returned" \/ dbFault)

\* a run that returned after a source failure and a scrape that raised
C3_Witness ==
    /\ pc = "returned"
    /\ malformed # {}
    /\ \E i \in Entities : task[i].st = "result" /\ task[i].all_failed

\* C4: no entity of a later batch starts scraping before every entity of each
\* earlier batch has finished and been folded into the BatchProgress
C4_BatchesSequential ==
    \A i, j \in Entities :
        (BatchOf(j) < BatchOf(i) /\ Started(i)) => (Finished(j) /\ Folded(j))

\* an entity of the second batch is scraping
C4_Witness ==
    \E i \in Entities : BatchOf(i) = 2 /\ task[i].st = "scraping"

----------------------------------------------------------------------------
(* Text: a string is a sequence of characters; an accented letter is written *)
(* as its base letter followed by an accent sign, e.g. "u'" for u-acute      *)

UpperCase == <<"A", "B", "C", "D", "E", "F", "G", "H", "I", "J", "K", "L", "M",
               "N", "O", "P", "Q", "R", "S", "T", "U", "V", "W", "X", "Y", "Z">>
LowerCase == <<"a", "b", "c", "d", "e", "f", "g", "h", "i", "j", "k", "l", "m",
               "n", "o", "p", "q", "r", "s", "t", "u", "v", "w", "x", "y", "z">>
Digits == {"0", "1", "2", "3", "4", "5", "6", "7", "8", "9"}

Range(f) == {f[x] : x \in DOMAIN f}

\* the accented letters of the model and their canonical decompositions
Decomposition ==
    [c \in {"u'", "U'", "e'", "E'", "a~"} |->
        CASE c = "u'" -> <<"u", "COMBINING ACUTE">>
          [] c = "U'" -> <<"U", "COMBINING ACUTE">>
          [] c = "e'" -> <<"e", "COMBINING ACUTE">>
          [] c = "E'" -> <<"E", "COMBINING ACUTE">>
          [] c = "a~" -> <<"a", "COMBINING TILDE">>]

\* unicodedata.normalize('NFKD', text)
RECURSIVE NFKD(_)
NFKD(text) ==
    IF text = <<>> THEN <<>>
    ELSE (IF Head(text) \in DOMAIN Decomposition
          THEN Decomposition[Head(text)] ELSE <<Head(text)>>) \o NFKD(Tail(text))

\* unicodedata.combining(char)
Combining(char) == char \in {"COMBINING ACUTE", "COMBINING TILDE"}

\* str.lower(), character by character
ToLower(char) ==
    IF \E k \in DOMAIN UpperCase : UpperCase[k] = char
    THEN LowerCase[CHOOSE k \in DOMAIN UpperCase : UpperCase[k] = char]
    ELSE char

IsSpace(char) == char = " "

\* str.strip()
RECURSIVE Strip(_)
Strip(text) ==
    IF text = <<>> THEN <<>>
    ELSE IF IsSpace(Head(text)) THEN Strip(Tail(text))
    ELSE IF IsSpace(text[Len(text)]) THEN Strip(SubSeq(text, 1, Len(text) - 1))
    ELSE text

_normalize_text_keepAccents(text) ==
    IF text = <<>> THEN <<>>
    ELSE LET normalized == NFKD(text)
         IN Strip([k \in DOMAIN normalized |-> ToLower(normalized[k])])

\* InsurerMatcher._normalize_text
_normalize_text(text) ==
    IF text = <<>> THEN <<>>
    ELSE LET normalized == NFKD(text)
             without_accents == SelectSeq(normalized, LAMBDA char : ~Combining(char))
         IN Strip([k \in DOMAIN without_accents |-> ToLower(without_accents[k])])

\* the regex class \w
IsWordChar(char) ==
    char \in Range(LowerCase) \cup Range(UpperCase) \cup Digits \cup {"_"}

\* the regex assertion \b at the gap after the first p characters of text
WordBoundary(text, p) ==
    LET before == p >= 1 /\ IsWordChar(text[p])
        after == p < Len(text) /\ IsWordChar(text[p + 1])
    IN before # after

SearchWord_substring(word, content) ==
    \E p \in 0..(Len(content) - Len(word)) :
        SubSeq(content, p + 1, p + Len(word)) = word

\* re.search(rf'\b{re.escape(word)}\b', content)
SearchWord(word, content) ==
    \E p \in 0..(Len(content) - Len(word)) :
        /\ SubSeq(content, p + 1, p + Len(word)) = word
        /\ WordBoundary(content, p)
        /\ WordBoundary(content, p + Len(word))

\* str.split(','): the pieces between the commas
RECURSIVE Split(_)
Split(text) ==
    IF \A k \in DOMAIN text : text[k] # ","
    THEN <<text>>
    ELSE LET k == CHOOSE k \in DOMAIN text :
                      text[k] = "," /\ \A j \in 1..(k - 1) : text[j] # ","
         IN <<SubSeq(text, 1, k - 1)>> \o Split(SubSeq(text, k + 1, Len(text)))

\* [term.strip() for term in insurer.search_terms.split(',') if term.strip()]
SearchTerms(search_terms) ==
    LET pieces == Split(search_terms)
        stripped == [k \in DOMAIN pieces |-> Strip(pieces[k])]
    IN SelectSeq(stripped, LAMBDA term : term # <<>>)

----------------------------------------------------------------------------
(* The insurers table and the article texts of the model *)

Categories == {"Health", "Dental"}

\* the enabled rows of the insurers table (search_terms <<>>: None)
InsurerTable ==
    << [id |-> 1, name |-> <<"A", "m", "i", "l">>,
        search_terms |-> <<>>, category |-> "Health"],
       [id |-> 2, name |-> <<"P", "o", "r", "t", "o", " ", "S", "e", "g", "u", "r", "o">>,
        search_terms |-> <<"P", "o", "r", "t", "o", ",", " ", "P", "S">>,
        category |-> "Health"],
       [id |-> 3, name |-> <<"I", "t", "a", "u'">>,
        search_terms |-> <<>>, category |-> "Health"],
       [id |-> 4, name |-> <<"A", "z", "u", "l">>,
        search_terms |-> <<>>, category |-> "Health"],
       [id |-> 5, name |-> <<"S", "u", "l">>,
        search_terms |-> <<"S", "u", "l", "A", "m">>, category |-> "Health"],
       [id |-> 6, name |-> <<"O", "d", "o", "n", "t", "o">>,
        search_terms |-> <<>>, category |-> "Dental"] >>

\* the sentinel row: Insurer(ans_code="000000", name="Noticias Gerais", ...);
\* its category is the state variable sentinel
GeneralInsurer ==
    [id |-> Len(InsurerTable) + 1,
     name |-> <<"N", "o", "t", "i", "c", "i", "a", "s", " ", "G", "e", "r", "a", "i", "s">>,
     search_terms |-> <<>>]

\* the row of the insurer with this id
InsurerRow(id) ==
    IF id \in DOMAIN InsurerTable THEN InsurerTable[id] ELSE GeneralInsurer

InsurerCategory(id) ==
    IF id \in DOMAIN InsurerTable THEN InsurerTable[id].category ELSE sentinel

\* the texts of the model's articles, by name (an article's title field holds
\* the name of its text)
Texts ==
    [T0  |-> <<"M", "e", "r", "c", "a", "d", "o", " ", "c", "r", "e", "s", "c", "e">>,
     T1  |-> <<"A", "m", "i", "l", " ", "l", "u", "c", "r", "a">>,
     T1b |-> <<"A", "m", "i", "l", " ", "l", "u", "c", "r", "o", "u">>,
     T1c |-> <<"A", "m", "i", "l", " ", "l", "u", "c", "r", "o", "u", " ",
               "m", "a", "i", "s">>,
     T2  |-> <<"A", "m", "i", "l", " ", "e", " ", "I", "T", "A", "U">>,
     T3  |-> <<"A", "m", "i", "l", " ", "I", "t", "a", "u'", " ", "O", "d", "o", "n",
               "t", "o", " ", "A", "z", "u", "l">>,
     T4  |-> <<"A", "m", "i", "l", " ", "I", "t", "a", "u'", " ", "A", "z", "u", "l",
               " ", "P", "o", "r", "t", "o">>,
     T5  |-> <<"C", "e", "u", " ", "a", "z", "u", "l", "a", "d", "o">>,
     T6  |-> <<"S", "u", "l", "A", "m", " ", "c", "r", "e", "s", "c", "e">>,
     T7  |-> <<"P", "o", "r", "t", "o", " ", "S", "e", "g", "u", "r", "o">>,
     none |-> <<>>]

\* titles of the articles whose urls vary (near-duplicates of one story)
DedupTitles == {"T1", "T1b", "T1c"}

\* titles of the articles whose text varies
MatchTitles == {"T0", "T1", "T2", "T3", "T4", "T5", "T6", "T7"}

Urls == {"", "a", "b"}

----------------------------------------------------------------------------
(* InsurerMatcher *)

MinNameLength == 4
MaxMultiMatches == 3
SingleConfidence == 95
MultiConfidence == 85

\* content = self._normalize_text(f"{title} {description}")
Content(article) ==
    _normalize_text(Texts[article.title] \o <<" ">> \o Texts[article.description])

\* one round of the "for insurer in insurers" loop of _deterministic_match:
\* TRUE when the insurer's id is appended to matched_ids
InsurerMatches(content, insurer) ==
    LET name_normalized == _normalize_text(insurer.name)
        search_terms == SearchTerms(insurer.search_terms)
    IN IF Len(name_normalized) < MinNameLength THEN FALSE
       ELSE IF SearchWord(name_normalized, content) THEN TRUE
       ELSE /\ insurer.search_terms # <<>>
            /\ \E k \in DOMAIN search_terms :
                   LET term_normalized == _normalize_text(search_terms[k])
                   IN /\ ~(Len(term_normalized) < MinNameLength)
                      /\ SearchWord(term_normalized, content)

\* Content and InsurerMatches, tabulated over the texts and insurers of the model
ContentTable ==
    [title \in DOMAIN Texts, description \in DOMAIN Texts |->
        Content([title |-> title, description |-> description])]

MatchTable ==
    [title \in DOMAIN Texts, description \in DOMAIN Texts,
     id \in 1..GeneralInsurer.id |->
        InsurerMatches(ContentTable[title, description], InsurerRow(id))]

\* InsurerMatcher._deterministic_match: the matched ids, in the insurers' order
\* (insurerList holds the insurers' ids, InsurerRow their rows)
_deterministic_match(article, insurerList) ==
    IF ContentTable[article.title, article.description] = <<>> THEN <<>>
    ELSE SelectSeq(insurerList,
                   LAMBDA id : MatchTable[article.title, article.description, id])

Unmatched(reasoning) ==
    [insurer_ids |-> <<>>, confidence |-> 0, method |-> "unmatched",
     reasoning |-> reasoning]

\* what the AI may answer for an article: no insurer, one insurer of the list,
\* every insurer of the list, or an insurer listed twice
AiAnswers(insurerList) ==
    {<<>>, insurerList} \cup {<<insurerList[k]>> : k \in DOMAIN insurerList}
        \cup {<<insurerList[k], insurerList[k]>> : k \in DOMAIN insurerList \cap {1}}

\* AIInsurerMatcher.ai_match, for the answer the AI gives: the chosen ids, or
\* unmatched when it chooses none or fails
ai_match(article, insurerList, answer) ==
    IF answer = <<>>
    THEN Unmatched("AI found no match")
    ELSE [insurer_ids |-> answer, confidence |-> 70, method |-> "ai_disambiguation",
          reasoning |-> "AI disambiguation"]

match_article_multiForMany(article, insurerList, answer) ==
    LET matched_ids == _deterministic_match(article, insurerList)
    IN IF Len(matched_ids) = 0
       THEN IF ai_enabled THEN ai_match(article, insurerList, answer)
            ELSE Unmatched("No clear deterministic match, AI unavailable")
       ELSE [insurer_ids |-> matched_ids,
             confidence |-> IF Len(matched_ids) = 1 THEN SingleConfidence
                            ELSE MultiConfidence,
             method |-> IF Len(matched_ids) = 1 THEN "deterministic_single"
                        ELSE "deterministic_multi",
             reasoning |-> "name matches"]

match_article_multiForNone(article, insurerList, answer) ==
    LET matched_ids == _deterministic_match(article, insurerList)
    IN IF Len(matched_ids) = 1
       THEN [insurer_ids |-> matched_ids, confidence |-> SingleConfidence,
             method |-> "deterministic_single", reasoning |-> "Exact name match"]
       ELSE IF Len(matched_ids) <= MaxMultiMatches
       THEN [insurer_ids |-> matched_ids, confidence |-> MultiConfidence,
             method |-> "deterministic_multi", reasoning |-> "Found name matches"]
       ELSE IF ai_enabled THEN ai_match(article, insurerList, answer)
       ELSE Unmatched("Too many matches, AI disambiguation unavailable")

AiInvocations_everyArticle(article, insurerList) == IF ai_enabled THEN 1 ELSE 0

\* the number of self.ai_matcher.ai_match calls match_article makes for an
\* article: one in the "too many matches" and "no matches" branches when AI is
\* enabled, none in the other branches
AiInvocations(article, insurerList) ==
    LET match_count == Len(_deterministic_match(article, insurerList))
    IN IF match_count = 1 THEN 0
       ELSE IF 2 <= match_count /\ match_count <= MaxMultiMatches THEN 0
       ELSE IF ai_enabled THEN 1 ELSE 0

\* InsurerMatcher.match_article; answer is what the AI would answer if asked
match_article(article, insurerList, answer) ==
    LET matched_ids == _deterministic_match(article, insurerList)
        match_count == Len(matched_ids)
    IN IF match_count = 1
       THEN [insurer_ids |-> matched_ids, confidence |-> SingleConfidence,
             method |-> "deterministic_single", reasoning |-> "Exact name match"]
       ELSE IF 2 <= match_count /\ match_count <= MaxMultiMatches
       THEN [insurer_ids |-> matched_ids, confidence |-> MultiConfidence,
             method |-> "deterministic_multi", reasoning |-> "Found name matches"]
       ELSE IF match_count > MaxMultiMatches
       THEN IF ai_enabled THEN ai_match(article, insurerList, answer)
            ELSE Unmatched("Too many matches, AI disambiguation unavailable")
       ELSE IF ai_enabled THEN ai_match(article, insurerList, answer)
            ELSE Unmatched("No clear deterministic match, AI unavailable")

\* InsurerMatcher.match_batch: match_article on every article, in order
match_batch(articleList, insurerList, answers) ==
    [k \in DOMAIN articleList |-> match_article(articleList[k], insurerList, answers[k])]

----------------------------------------------------------------------------
(* Deduplication *)

\* the URL stage's "for article in articles" loop
RECURSIVE url_dedup_loop_toggle(_, _, _)
url_dedup_loop_toggle(rest, seen_urls, url_deduped) ==
    IF rest = <<>> THEN url_deduped
    ELSE LET article == Head(rest)
             url == article.source_url
         IN IF url # "" /\ url \in seen_urls
            THEN url_dedup_loop_toggle(Tail(rest), seen_urls \ {url}, url_deduped)
            ELSE url_dedup_loop_toggle(Tail(rest),
                     IF url # "" THEN seen_urls \cup {url} ELSE seen_urls,
                     Append(url_deduped, article))

RECURSIVE url_dedup_loop(_, _, _)
url_dedup_loop(rest, seen_urls, url_deduped) ==
    IF rest = <<>> THEN url_deduped
    ELSE LET article == Head(rest)
             url == article.source_url
         IN IF url # "" /\ url \in seen_urls
            THEN url_dedup_loop(Tail(rest), seen_urls, url_deduped)
            ELSE url_dedup_loop(Tail(rest),
                     IF url # "" THEN seen_urls \cup {url} ELSE seen_urls,
                     Append(url_deduped, article))

UrlDeduplicate_byDict(articleList) ==
    LET firsts == url_dedup_loop(articleList, {}, <<>>)
        Last(url) == CHOOSE i \in DOMAIN articleList :
                         /\ articleList[i].source_url = url
                         /\ \A j \in DOMAIN articleList :
                                j > i => articleList[j].source_url # url
    IN [k \in DOMAIN firsts |->
           IF firsts[k].source_url = "" THEN firsts[k]
           ELSE articleList[Last(firsts[k].source_url)]]

\* "URL deduplication (fast inline check before semantic dedup)"
UrlDeduplicate(articleList) == url_dedup_loop(articleList, {}, <<>>)

\* pairs of distinct texts whose embeddings are closer than the threshold
NearDuplicates == {{Texts["T1"], Texts["T1b"]}, {Texts["T1b"], Texts["T1c"]}}

\* the text that is embedded: title (+ description)
EmbeddedText(article) ==
    IF Texts[article.description] = <<>> THEN Texts[article.title]
    ELSE Texts[article.title] \o <<" ">> \o Texts[article.description]

\* cosine similarity of the two embeddings above the threshold
Similar(a, b) ==
    \/ EmbeddedText(a) = EmbeddedText(b)
    \/ {EmbeddedText(a), EmbeddedText(b)} \in NearDuplicates

\* ArticleDeduplicator.deduplicate: greedy, the first article of each cluster
\* of near-duplicates is kept
RECURSIVE semantic_loop(_, _)
semantic_loop(rest, kept) ==
    IF rest = <<>> THEN kept
    ELSE IF \E k \in DOMAIN kept : Similar(kept[k], Head(rest))
    THEN semantic_loop(Tail(rest), kept)
    ELSE semantic_loop(Tail(rest), Append(kept, Head(rest)))

deduplicate(articleList) == semantic_loop(articleList, <<>>)

----------------------------------------------------------------------------
(* _execute_factiva_pipeline *)

MaxArticles == 3
MaxMatchArticles == 2
MaxInsurersPerArticle == 3

\* an article dict; id is its place in the collector's list (the dict's identity)
Article(i, url, title) ==
    [id |-> i, source_url |-> url, title |-> title, description |-> "none"]

\* what the collector may return when a story comes from several sources: its
\* near-duplicates under every url
DedupCollections ==
    UNION {{[i \in 1..n |-> Article(i, f[i][1], f[i][2])] :
               f \in [1..n -> Urls \X DedupTitles]} : n \in 0..MaxArticles}

\* what the collector may return when the stories differ: articles without url
\* on every text
MatchCollections ==
    UNION {{[i \in 1..n |-> Article(i, "", f[i])] :
               f \in [1..n -> MatchTitles]} : n \in 0..MaxMatchArticles}

\* no process_insurers call is going on
BatchIdle ==
    /\ insurers = 0
    /\ malformed = {}
    /\ batch_size = 1
    /\ max_concurrent = 1
    /\ sources = 0
    /\ db = FALSE
    /\ progress_callback = FALSE
    /\ pc = "idle"
    /\ batch_start = 0
    /\ results = <<>>
    /\ ridx = 0
    /\ progress = NewProgress(0)
    /\ semaphore = 0
    /\ task = [i \in 1..MaxInsurers |-> NoTask]
    /\ stored = [i \in 1..MaxInsurers |-> 0]
    /\ run_record = [insurers_processed |-> 0, items_found |-> 0]
    /\ callbacks = <<>>
    /\ sleeps = 0
    /\ dbFault = FALSE

\* the pipeline has collected its articles; the database may hold a sentinel
\* insurer created by an earlier run
PipelineStart(collections) ==
    /\ collected \in collections
    /\ category \in Categories
    /\ ai_enabled \in BOOLEAN
    /\ sentinel \in {"none"} \cup Categories
    /\ ppc = "collected"
    /\ articles = collected
    /\ matching = <<>>
    /\ general_insurer = 0
    /\ match_results = <<>>
    /\ sidx = 0
    /\ news_items = <<>>
    /\ committed = FALSE
    /\ ai_calls = <<>>
    /\ BatchIdle
    /\ OthersIdle

\* "URL deduplication": articles = url_deduped
UrlDedupStage ==
    /\ ppc = "collected"
    /\ articles' = UrlDeduplicate(articles)
    /\ ppc' = "url_deduped"
    /\ UNCHANGED <<bvars, ovars, collected, category, ai_enabled, sentinel, matching,
                   general_insurer, match_results, sidx, news_items, committed, ai_calls>>

\* "Semantic deduplication": articles = deduplicator.deduplicate(articles)
SemanticDedupStage ==
    /\ ppc = "url_deduped"
    /\ articles' = deduplicate(articles)
    /\ ppc' = "deduped"
    /\ UNCHANGED <<bvars, ovars, collected, category, ai_enabled, sentinel, matching,
                   general_insurer, match_results, sidx, news_items, committed, ai_calls>>

\* the ids of the rows of the insurers table, with the sentinel's if there is one
AllInsurers ==
    [k \in 1..(IF sentinel = "none" THEN Len(InsurerTable) ELSE GeneralInsurer.id) |->
        InsurerRow(k).id]

\* "Load insurers for matching (filter by category)", then the sentinel insurer
\* is looked up by its ans_code and created in request.category if missing
LoadInsurers ==
    /\ ppc = "deduped"
    /\ matching' = SelectSeq(AllInsurers, LAMBDA id : InsurerCategory(id) = category)
    /\ sentinel' = IF sentinel = "none" THEN category ELSE sentinel
    /\ general_insurer' = GeneralInsurer.id
    /\ ppc' = "matching"
    /\ UNCHANGED <<bvars, ovars, collected, category, ai_enabled, articles,
                   match_results, sidx, news_items, committed, ai_calls>>

MatchArticle_prepend(answer) ==
    /\ ppc = "matching"
    /\ Len(match_results) < Len(articles)
    /\ match_results' = <<match_article(articles[Len(match_results) + 1],
                                        matching, answer)>> \o match_results
    /\ ai_calls' = Append(ai_calls,
           AiInvocations(articles[Len(match_results) + 1], matching))
    /\ UNCHANGED <<bvars, ovars, collected, category, ai_enabled, sentinel, ppc, articles,
                   matching, general_insurer, sidx, news_items, committed>>

\* one round of match_batch's "for article in articles" loop
MatchArticle(answer) ==
    /\ ppc = "matching"
    /\ Len(match_results) < Len(articles)
    /\ match_results' = Append(match_results,
           match_article(articles[Len(match_results) + 1], matching, answer))
    /\ ai_calls' = Append(ai_calls,
           AiInvocations(articles[Len(match_results) + 1], matching))
    /\ UNCHANGED <<bvars, ovars, collected, category, ai_enabled, sentinel, ppc, articles,
                   matching, general_insurer, sidx, news_items, committed>>

\* match_batch logs its statistics and returns the results
MatchBatchReturn ==
    /\ ppc = "matching"
    /\ Len(match_results) = Len(articles)
    /\ ppc' = "storing"
    /\ sidx' = 1
    /\ UNCHANGED <<bvars, ovars, collected, category, ai_enabled, sentinel, articles,
                   matching, general_insurer, match_results, news_items, committed, ai_calls>>

TargetIds_noSentinel(match) ==
    SubSeq(match.insurer_ids, 1, Min(MaxInsurersPerArticle, Len(match.insurer_ids)))

\* "Determine insurer IDs - use sentinel for unmatched", capped at 3
TargetIds(match) ==
    LET target_ids == IF match.insurer_ids # <<>> THEN match.insurer_ids
                      ELSE <<general_insurer>>
    IN SubSeq(target_ids, 1, Min(MaxInsurersPerArticle, Len(target_ids)))

\* one round of "for article, match in zip(articles, match_results)": a
\* NewsItem is added for every target insurer
StoreArticle ==
    /\ ppc = "storing"
    /\ sidx <= Min(Len(articles), Len(match_results))
    /\ LET article == articles[sidx]
           target_ids == TargetIds(match_results[sidx])
       IN news_items' = news_items \o
              [k \in DOMAIN target_ids |->
                  [article |-> article.id, insurer_id |-> target_ids[k]]]
    /\ sidx' = sidx + 1
    /\ UNCHANGED <<bvars, ovars, collected, category, ai_enabled, sentinel, ppc, articles,
                   matching, general_insurer, match_results, committed, ai_calls>>

\* db.commit() after the loop; a commit that raises ends the pipeline with the
\* exception and nothing stored
CommitItems(commitOk) ==
    /\ ppc = "storing"
    /\ sidx > Min(Len(articles), Len(match_results))
    /\ committed' = commitOk
    /\ ppc' = IF commitOk THEN "done" ELSE "raised"
    /\ UNCHANGED <<bvars, ovars, collected, category, ai_enabled, sentinel, articles,
                   matching, general_insurer, match_results, sidx, news_items, ai_calls>>

NextPipeline ==
    \/ UrlDedupStage
    \/ SemanticDedupStage
    \/ LoadInsurers
    \/ \E answer \in AiAnswers(matching) : MatchArticle(answer)
    \/ MatchBatchReturn
    \/ StoreArticle
    \/ \E commitOk \in BOOLEAN : CommitItems(commitOk)

\* a run over articles that differ in their text
InitPipeline == PipelineStart(MatchCollections)

SpecPipeline == InitPipeline /\ [][NextPipeline]_vars

\* a run over the near-duplicates of one story
InitDedup == PipelineStart(DedupCollections)

SpecDedup == InitDedup /\ [][NextPipeline]_vars

----------------------------------------------------------------------------
(* Claims about deduplication *)

UrlsOf(articleList) == [k \in DOMAIN articleList |-> articleList[k].source_url]
TitlesOf(articleList) == [k \in DOMAIN articleList |-> articleList[k].title]

\* the article has no url, or no earlier collected article has its url
FirstOfUrl(article) ==
    \/ article.source_url = ""
    \/ \A j \in 1..(article.id - 1) : collected[j].source_url # article.source_url

\* C5: the URL stage keeps, in the original order, exactly the first article of
\* each distinct non-empty source_url and every article without source_url
C5_UrlDedupExact ==
    ppc = "url_deduped" => articles = SelectSeq(collected, FirstOfUrl)

\* the urls a, a, b have become a, b
C5_Witness ==
    /\ ppc = "url_deduped"
    /\ UrlsOf(collected) = <<"a", "a", "b">>
    /\ UrlsOf(articles) = <<"a", "b">>

\* C6: applying the deduplication pass (URL stage, then semantic stage) to its
\* own output removes nothing and gives the same list
C6_DedupIdempotent ==
    ppc = "deduped" => deduplicate(UrlDeduplicate(articles)) = articles

\* a pass that removed the middle one of three articles, each a near-duplicate
\* of the next, and kept the two outer ones, which are no near-duplicates
C6_Witness ==
    /\ ppc = "deduped"
    /\ TitlesOf(collected) = <<"T1", "T1b", "T1c">>
    /\ TitlesOf(articles) = <<"T1", "T1c">>

\* C7: the deduplicated list is a subsequence of the collected list: every
\* article of it is a collected article, in the collected order, none twice
C7_DedupSubsequence ==
    /\ Len(articles) <= Len(collected)
    /\ \A k \in DOMAIN articles :
           /\ articles[k].id \in DOMAIN collected
           /\ articles[k] = collected[articles[k].id]
           /\ \A j \in 1..(k - 1) : articles[j].id < articles[k].id

\* both stages have run and removed the second of three articles
C7_Witness ==
    /\ ppc = "deduped"
    /\ Len(collected) = 3
    /\ Len(articles) = 2
    /\ articles[1].id = 1
    /\ articles[2].id = 3
    /\ collected[2].source_url = collected[1].source_url
    /\ collected[2].source_url # ""

----------------------------------------------------------------------------
(* Claims about matching and storing *)

\* the deterministic matches of the k-th article
Matched(k) == _deterministic_match(articles[k], matching)

\* C8: without AI, match_article decides by the number n of deterministic
\* matches: 1 gives deterministic_single, 0.95 and that id; 2..3 give
\* deterministic_multi, 0.85 and all matched ids; 0 or more than 3 give
\* unmatched, 0.0 and no id
C8_TieringWithoutAi ==
    ~ai_enabled =>
        \A k \in DOMAIN match_results :
            LET n == Len(Matched(k))
                result == match_results[k]
            IN /\ n = 1 => /\ result.method = "deterministic_single"
                           /\ result.confidence = 95
                           /\ result.insurer_ids = Matched(k)
               /\ (2 <= n /\ n <= 3) => /\ result.method = "deterministic_multi"
                                        /\ result.confidence = 85
                                        /\ result.insurer_ids = Matched(k)
               /\ (n = 0 \/ n > 3) => /\ result.method = "unmatched"
                                      /\ result.confidence = 0
                                      /\ result.insurer_ids = <<>>

\* without AI, one article matched a single insurer and another more than 3
C8_Witness ==
    /\ ~ai_enabled
    /\ \E j, k \in DOMAIN match_results :
           /\ Len(Matched(j)) = 1
           /\ match_results[j].method = "deterministic_single"
           /\ Len(Matched(k)) > 3
           /\ match_results[k].method = "unmatched"

\* C9: whatever path produced a MatchResult, its insurer_ids are empty only if
\* its method is unmatched
C9_EmptyOnlyIfUnmatched ==
    \A k \in DOMAIN match_results :
        match_results[k].insurer_ids = <<>> => match_results[k].method = "unmatched"

\* the AI matched one article and left another unmatched
C9_Witness ==
    /\ ai_enabled
    /\ \E j, k \in DOMAIN match_results :
           /\ match_results[j].method = "ai_disambiguation"
           /\ match_results[j].insurer_ids # <<>>
           /\ match_results[k].method = "unmatched"
           /\ match_results[k].insurer_ids = <<>>

StoredFor(article, insurer_id) ==
    \E m \in DOMAIN news_items :
        news_items[m] = [article |-> article.id, insurer_id |-> insurer_id]

\* C10: when the pipeline has stored its items, every article that survived
\* deduplication is stored for at least one insurer, and an article whose
\* MatchResult has no insurer id is stored under the sentinel insurer
C10_NoArticleDropped ==
    ppc = "done" =>
        \A k \in DOMAIN articles :
            /\ \E m \in DOMAIN news_items : news_items[m].article = articles[k].id
            /\ match_results[k].insurer_ids = <<>>
                   => StoredFor(articles[k], GeneralInsurer.id)

\* a committed run with one article matched to an insurer and one unmatched
C10_Witness ==
    /\ ppc = "done"
    /\ committed
    /\ \E j, k \in DOMAIN articles :
           /\ match_results[j].insurer_ids # <<>>
           /\ match_results[k].insurer_ids = <<>>
           /\ StoredFor(articles[k], GeneralInsurer.id)

\* the article's text mentions the insurer's name and one of its aliases
NameAndAlias(article, insurer) ==
    LET content == Content(article)
        terms == SearchTerms(insurer.search_terms)
    IN /\ SearchWord(_normalize_text(insurer.name), content)
       /\ \E k \in DOMAIN terms : SearchWord(_normalize_text(terms[k]), content)

\* C11: the NewsItem rows of a run hold at most one row per (article, insurer)
\* pair
C11_OncePerPair ==
    \A m, n \in DOMAIN news_items : news_items[m] = news_items[n] => m = n

\* C11, for the deterministic matcher alone: without AI no (article, insurer)
\* pair is stored twice, also when name and alias both match
C11_OncePerPairDeterministic ==
    ~ai_enabled => C11_OncePerPair

\* without AI, a stored article that mentions an insurer by name and by alias
C11_Witness ==
    /\ ~ai_enabled
    /\ ppc = "done"
    /\ \E k \in DOMAIN articles :
           /\ NameAndAlias(articles[k], InsurerRow(2))
           /\ StoredFor(articles[k], 2)

\* C14: match_batch returns one MatchResult per article, in the articles'
\* order: result i is what match_article returns on article i against the
\* insurers it was given, for the AI answer the result carries (the state is
\* the one match_batch returns in, before the first article is stored)
C14_BatchOneToOne ==
    (ppc = "storing" /\ sidx = 1) =>
        /\ Len(match_results) = Len(articles)
        /\ \A i \in DOMAIN articles :
               LET answer == match_results[i].insurer_ids
               IN /\ match_results[i] = match_article(articles[i], matching, answer)
                  /\ match_results[i].method = "ai_disambiguation" =>
                         answer \in AiAnswers(matching)

\* match_batch has returned for two articles with different results
C14_Witness ==
    /\ ppc = "storing"
    /\ sidx = 1
    /\ Len(articles) = 2
    /\ match_results[1].method = "unmatched"
    /\ match_results[2].method = "deterministic_single"

----------------------------------------------------------------------------
(* Claims about the batch processor's errors *)

\* the entries of BatchProgress.errors that name the entity
ErrorsOf(i) == SelectSeq(progress.errors, LAMBDA e : e.insurer = i)

\* C17: an entity whose scrape returned has an entry in BatchProgress.errors
\* exactly when every configured source failed for it
C17_ErrorIffAllSourcesFailed ==
    \A i \in Entities :
        (Folded(i) /\ task[i].st = "result") =>
            (ErrorsOf(i) # <<>> <=> task[i].all_failed)

\* C18: with a run and a db, a flush that raises for one entity's items does
\* not end process_insurers before the remaining results are folded and stored
C18_StorageFailureIsolated ==
    ~(db /\ dbFault /\ pc = "raised" /\ ridx <= Len(results))

----------------------------------------------------------------------------
(* TokenManager *)

MaxCalls == 3
MaxAttempts == 3

\* what one POST to the token endpoint may come to: a status code, a 200 whose
\* body cannot be used, a timeout or network error, or any other exception
Responses ==
    {"200", "200 unusable body", "401", "403", "404", "429", "500",
     "TimeoutException", "NetworkError", "other Exception"}

\* the outcomes _acquire_token re-raises for tenacity to retry
Retried(response) ==
    response \in {"429", "500", "TimeoutException", "NetworkError"}

\* a TokenManager whose cache is empty, holds a valid token, or holds a token
\* within REFRESH_MARGIN_SECONDS of its expiry; get_token is about to be called
InitToken ==
    /\ token_manager \in
           {[pc |-> "call", _token |-> t, attempt |-> 0, events |-> <<>>,
             result |-> "none", calls |-> 1] : t \in {"None", "valid", "expiring"}}
    /\ MatcherIdle
    /\ ScorerIdle
    /\ ProcessorIdle
    /\ BatchIdle
    /\ PipelineIdle

\* TokenManager.is_token_valid
is_token_valid == token_manager._token = "valid"

\* get_token: the cached token, or the first attempt of _acquire_token
GetToken ==
    /\ token_manager.pc = "call"
    /\ token_manager' =
           IF is_token_valid
           THEN [token_manager EXCEPT !.pc = "returned", !.result = "access_token"]
           ELSE [token_manager EXCEPT !.pc = "acquire", !.attempt = 1]
    /\ UNCHANGED <<bvars, pvars, matcher, scorer, processor>>

\* _record_event: the event is added to api_events unless the recording
\* itself fails, which is swallowed
RecordEvent(events, event_type, recordOk) ==
    IF recordOk THEN Append(events, event_type) ELSE events

\* tenacity's stop=stop_after_attempt(3) for a re-raised exception: another
\* attempt after the wait, or, after the last attempt, RetryError is raised to
\* the caller (no retry_error_callback is given)
RetryOrRaise ==
    IF token_manager.attempt < MaxAttempts
    THEN [token_manager EXCEPT !.attempt = @ + 1]
    ELSE [token_manager EXCEPT !.pc = "raised", !.result = "RetryError"]

\* one attempt of _acquire_token
AcquireToken(response, recordOk) ==
    /\ token_manager.pc = "acquire"
    /\ LET is_refresh == token_manager._token # "None"
       IN token_manager' =
              IF response = "200"
              THEN [token_manager EXCEPT
                       !._token = "valid",
                       !.events = RecordEvent(@, IF is_refresh THEN "TOKEN_REFRESHED"
                                                 ELSE "TOKEN_ACQUIRED", recordOk),
                       !.result = "access_token",
                       !.pc = "returned"]
              ELSE IF Retried(response)
              THEN RetryOrRaise
              ELSE [token_manager EXCEPT
                       !.events = RecordEvent(@, "TOKEN_FAILED", recordOk),
                       !.result = "None",
                       !.pc = "returned"]
    /\ UNCHANGED <<bvars, pvars, matcher, scorer, processor>>

\* time passes and the cached token comes within the refresh margin
TokenExpires ==
    /\ token_manager.pc = "returned"
    /\ token_manager._token = "valid"
    /\ token_manager' = [token_manager EXCEPT !._token = "expiring"]
    /\ UNCHANGED <<bvars, pvars, matcher, scorer, processor>>

\* the consumer calls get_token again
CallAgain ==
    /\ token_manager.pc = "returned"
    /\ token_manager.calls < MaxCalls
    /\ token_manager' = [token_manager EXCEPT !.pc = "call", !.attempt = 0,
                                               !.result = "none", !.calls = @ + 1]
    /\ UNCHANGED <<bvars, pvars, matcher, scorer, processor>>

NextToken ==
    \/ GetToken
    \/ \E response \in Responses, recordOk \in BOOLEAN : AcquireToken(response, recordOk)
    \/ TokenExpires
    \/ CallAgain

SpecToken == InitToken /\ [][NextToken]_vars

\* C19: get_token never raises; a call that does not end with a token returns
\* None
C19_GetTokenNeverRaises == token_manager.pc # "raised"

\* what holds instead: get_token raises only after the last of MaxAttempts
\* attempts was re-raised for retry, and then no TOKEN_FAILED event is recorded
\* for the call
C19_RaisesOnlyWhenRetriesExhausted ==
    [][(token_manager.pc # "raised" /\ token_manager'.pc = "raised") =>
          /\ token_manager.attempt = MaxAttempts
          /\ token_manager'.events = token_manager.events]_vars

----------------------------------------------------------------------------
(* InsurerMatcher._deterministic_match on given texts *)

\* article titles: SulAmerica with and without accent and capitals, words
\* that contain a name, and a name as a word
ArticleTexts ==
    { <<"S", "u", "l", "A", "m", "e'", "r", "i", "c", "a">>,
      <<"S", "U", "L", "A", "M", "E'", "R", "I", "C", "A">>,
      <<"s", "u", "l", "a", "m", "e", "r", "i", "c", "a">>,
      <<"c", "o", "n", "s", "u", "l", "t", "a">>,
      <<"C", "e", "u", " ", "a", "z", "u", "l", "a", "d", "o">>,
      <<"C", "e", "u", " ", "A", "z", "u", "l">>,
      <<"C", "E", "U", " ", "A", "Z", "U", "L">> }

\* insurers (name, search_terms) in the same variety
InsurerInputs ==
    { [name |-> <<"S", "u", "l", "A", "m", "e", "r", "i", "c", "a">>,
      search_terms |-> <<>>],
      [name |-> <<"S", "u", "l", "A", "m", "e'", "r", "i", "c", "a">>,
      search_terms |-> <<>>],
      [name |-> <<"S", "U", "L", "A", "M", "E", "R", "I", "C", "A">>,
      search_terms |-> <<>>],
      [name |-> <<"A", "z", "u", "l">>,
      search_terms |-> <<>>],
      [name |-> <<"S", "u", "l">>,
      search_terms |-> <<>>],
      [name |-> <<"S", "u", "l">>,
      search_terms |-> <<"S", "u", "l", "A", "m", "e", "r", "i", "c", "a">>],
      [name |-> <<"C", "o", "n", "s", "u", "l">>,
      search_terms |-> <<>>],
      [name |-> <<"S", "a", "u", "d", "e">>,
      search_terms |-> <<"s", "u", "l", "a", "m", "e", "r", "i", "c", "a", ",", " ", "A", "z", "u", "l">>],
      [name |-> <<"S", "A", "U", "D", "E">>,
      search_terms |-> <<"S", "U", "L", "A", "M", "E'", "R", "I", "C", "A", ",", " ", "A", "Z", "U", "L">>] }

\* two articles and two insurers are given to the matcher
InitMatcher ==
    /\ matcher \in
           {[pc |-> "given", texts |-> <<t1, t2>>, insurers |-> <<i1, i2>>,
             content |-> <<>>, matched |-> <<>>] :
                t1 \in ArticleTexts, t2 \in ArticleTexts,
                i1 \in InsurerInputs, i2 \in InsurerInputs}
    /\ ScorerIdle
    /\ TokenIdle
    /\ ProcessorIdle
    /\ BatchIdle
    /\ PipelineIdle

\* content = self._normalize_text(f"{title} {description}"), for each article
\* (the description is empty)
NormalizeContent ==
    /\ matcher.pc = "given"
    /\ matcher' = [matcher EXCEPT
           !.content = [a \in 1..2 |-> _normalize_text(matcher.texts[a] \o <<" ">>)],
           !.pc = "normalized"]
    /\ UNCHANGED <<bvars, pvars, scorer, token_manager, processor>>

\* the "for insurer in insurers" loop, for each article
DeterministicMatch ==
    /\ matcher.pc = "normalized"
    /\ matcher' = [matcher EXCEPT
           !.matched = [a \in 1..2 |-> [i \in 1..2 |->
                           /\ matcher.content[a] # <<>>
                           /\ InsurerMatches(matcher.content[a], matcher.insurers[i])]],
           !.pc = "matched"]
    /\ UNCHANGED <<bvars, pvars, scorer, token_manager, processor>>

NextMatcher == NormalizeContent \/ DeterministicMatch

SpecMatcher == InitMatcher /\ [][NextMatcher]_vars

\* the normalized name and aliases of an insurer
NormalizedTerms(insurer) ==
    LET terms == SearchTerms(insurer.search_terms)
    IN {_normalize_text(insurer.name)} \cup
       {_normalize_text(terms[k]) : k \in DOMAIN terms}

\* word occurs in content with no letter, digit or underscore next to it
OccursAsWord(word, content) ==
    \E p \in 0..(Len(content) - Len(word)) :
        /\ SubSeq(content, p + 1, p + Len(word)) = word
        /\ p = 0 \/ ~IsWordChar(content[p])
        /\ p + Len(word) = Len(content) \/ ~IsWordChar(content[p + Len(word) + 1])

\* C12: an insurer is matched only if its name or one of its aliases occurs in
\* the normalized text as a word of its own; a name that occurs only inside a
\* longer word gives no match
C12_NoSubstringMatch ==
    matcher.pc = "matched" =>
        \A a, i \in 1..2 :
            matcher.matched[a][i] =>
                \E word \in NormalizedTerms(matcher.insurers[i]) :
                    OccursAsWord(word, matcher.content[a])

\* "consulta" does not match Consul, "Ceu Azul" matches Azul
C12_Witness ==
    /\ matcher.pc = "matched"
    /\ matcher.texts[1] = <<"c", "o", "n", "s", "u", "l", "t", "a">>
    /\ matcher.insurers[1].name = <<"C", "o", "n", "s", "u", "l">>
    /\ ~matcher.matched[1][1]
    /\ matcher.texts[2] = <<"C", "e", "u", " ", "A", "z", "u", "l">>
    /\ matcher.insurers[2].name = <<"A", "z", "u", "l">>
    /\ matcher.matched[2][2]

\* the forms of one letter: lower case, upper case, and with an accent
SameLetter(c, d) ==
    \/ c = d
    \/ \E k \in DOMAIN LowerCase :
           LET accented == IF LowerCase[k] = "u" THEN {"u'", "U'"}
                           ELSE IF LowerCase[k] = "e" THEN {"e'", "E'"}
                           ELSE IF LowerCase[k] = "a" THEN {"a~"}
                           ELSE {}
               forms == {LowerCase[k], UpperCase[k]} \cup accented
           IN c \in forms /\ d \in forms

\* two texts that differ only in accents or letter case
Variant(s, t) ==
    /\ Len(s) = Len(t)
    /\ \A k \in DOMAIN s : SameLetter(s[k], t[k])

\* C13: when the two articles differ only in accents or case, and so do the two
\* insurers' names and aliases, all four match outcomes are the same
C13_AccentCaseInvariant ==
    (/\ matcher.pc = "matched"
     /\ Variant(matcher.texts[1], matcher.texts[2])
     /\ Variant(matcher.insurers[1].name, matcher.insurers[2].name)
     /\ Variant(matcher.insurers[1].search_terms, matcher.insurers[2].search_terms))
        => \A a, b, i, j \in 1..2 : matcher.matched[a][i] = matcher.matched[b][j]

\* SulAme'rica and sulamerica as articles, SulAmerica and SulAme'rica as
\* insurers: every pair matches
C13_Witness ==
    /\ matcher.pc = "matched"
    /\ matcher.texts = <<<<"S", "u", "l", "A", "m", "e'", "r", "i", "c", "a">>,
                         <<"s", "u", "l", "a", "m", "e", "r", "i", "c", "a">>>>
    /\ matcher.insurers[1].name = <<"S", "u", "l", "A", "m", "e", "r", "i", "c", "a">>
    /\ matcher.insurers[2].name = <<"S", "u", "l", "A", "m", "e'", "r", "i", "c", "a">>
    /\ \A a, i \in 1..2 : matcher.matched[a][i]

----------------------------------------------------------------------------
(* RelevanceScorer._parse_relevance_response *)

MaxLines == 3
MaxScoredItems == 3

\* the numbers a response line may start with; NumberTokens[k] is written k
NumberTokens == <<"1", "2", "3", "4">>

\* the lines of an AI response, as tokens: "k: relevant", "k: not_relevant"
\* followed by a remark, a number without verdict, and lines without number
ResponseLines ==
    UNION {{<<NumberTokens[k], ":", "relevant">>,
            <<NumberTokens[k], ":", "not_relevant", "text">>,
            <<NumberTokens[k], "text">>} : k \in DOMAIN NumberTokens}
    \cup {<<"text">>, <<"text", ":">>, <<"not_relevant">>}

\* the responses of at most maxLines lines
ResponsesUpTo(maxLines) ==
    UNION {[1..n -> ResponseLines] : n \in 0..maxLines}

\* one line of the numbered format: the item's number and its verdict, or
\* index 0 when the line is not of the format
ParseLine(line) ==
    IF /\ Len(line) >= 3
       /\ \E k \in DOMAIN NumberTokens : NumberTokens[k] = line[1]
       /\ line[2] = ":"
       /\ line[3] \in {"relevant", "not_relevant"}
    THEN [index |-> CHOOSE k \in DOMAIN NumberTokens : NumberTokens[k] = line[1],
          relevant |-> line[3] = "relevant"]
    ELSE [index |-> 0, relevant |-> TRUE]

\* the "for line in response" loop over the verdicts, which start as relevant
RECURSIVE parse_loop_failClosed(_, _)
parse_loop_failClosed(lines, verdicts) ==
    IF lines = <<>> THEN verdicts
    ELSE LET parsed == ParseLine(Head(lines))
         IN parse_loop_failClosed(Tail(lines),
                [i \in DOMAIN verdicts |->
                    IF parsed.index = i THEN parsed.relevant
                    ELSE IF parsed.index = 0 THEN FALSE ELSE verdicts[i]])

RECURSIVE parse_loop(_, _)
parse_loop(lines, verdicts) ==
    IF lines = <<>> THEN verdicts
    ELSE LET parsed == ParseLine(Head(lines))
         IN parse_loop(Tail(lines),
                       [i \in DOMAIN verdicts |->
                           IF parsed.index = i THEN parsed.relevant ELSE verdicts[i]])

\* RelevanceScorer._parse_relevance_response(response, num_items)
_parse_relevance_response(response, num_items) ==
    parse_loop(response, [i \in 1..num_items |-> TRUE])

\* a response and the number of items it is parsed for
InitParse ==
    /\ scorer \in {[pc |-> "parse", response |-> response, num_items |-> n,
                     results |-> <<>>] :
                        response \in ResponsesUpTo(MaxLines), n \in 0..MaxScoredItems}
    /\ MatcherIdle
    /\ TokenIdle
    /\ ProcessorIdle
    /\ BatchIdle
    /\ PipelineIdle

ParseRelevanceResponse ==
    /\ scorer.pc = "parse"
    /\ scorer' = [scorer EXCEPT
           !.results = _parse_relevance_response(scorer.response, scorer.num_items),
           !.pc = "parsed"]
    /\ UNCHANGED <<bvars, pvars, matcher, token_manager, processor>>

NextParse == ParseRelevanceResponse

SpecParse == InitParse /\ [][NextParse]_vars

\* the line marks item i as not relevant: "i: not_relevant ..."
MarksNotRelevant(line, i) ==
    /\ Len(line) >= 3
    /\ line[1] = NumberTokens[i]
    /\ line[2] = ":"
    /\ line[3] = "not_relevant"

\* C15: parsing a response for n items gives n verdicts, and item i is False
\* only if a line of the response marks i as not_relevant; items without such
\* a line are True
C15_ParseFailsOpen ==
    scorer.pc = "parsed" =>
        /\ Len(scorer.results) = scorer.num_items
        /\ \A i \in 1..scorer.num_items :
               scorer.results[i] = FALSE =>
                   \E k \in DOMAIN scorer.response :
                       MarksNotRelevant(scorer.response[k], i)

\* a response for 3 items with a verdict for item 3 only, after a line that
\* is not of the format: item 3 is dropped, items 1 and 2 are kept
C15_Witness ==
    /\ scorer.pc = "parsed"
    /\ scorer.num_items = 3
    /\ scorer.response = <<<<"text">>, <<"3", ":", "not_relevant", "text">>>>
    /\ scorer.results = <<TRUE, TRUE, FALSE>>

----------------------------------------------------------------------------
(* RelevanceScorer.score_batch *)

MaxAiBatchSize == 2
MinKeywordLength == 3

\* the scraped items of the model, by kind: title and description
ScoredTexts ==
    [K1 |-> [title |-> <<"A", "m", "i", "l", " ", "a", "n", "u", "n", "c", "i", "a">>,
             description |-> <<>>],
     K2 |-> [title |-> <<"U", "n", "i", "m", "e", "d", " ", "e", "x", "p", "a", "n", "d", "e">>,
             description |-> <<>>],
     K3 |-> [title |-> <<"A", "M", "I", "L", " ", "i", "n", "v", "e", "s", "t", "i", "g", "a", "d", "a">>,
             description |-> <<>>],
     K4 |-> [title |-> <<"N", "o", "t", "i", "c", "i", "a", " ", "d", "e", " ", "i", "n", "t", "e", "r", "e", "s", "s", "e">>,
             description |-> <<>>],
     K5 |-> [title |-> <<"S", "e", "t", "o", "r", " ", "c", "r", "e", "s", "c", "e">>,
             description |-> <<"A", "m", "i", "l", " ", "l", "u", "c", "r", "a">>]]

\* the insurer names score_batch is called with
InsurerNames ==
    [N1 |-> <<"A", "m", "i", "l", " ", "d", "e", " ", "S", "a", "u", "d", "e">>,
     N2 |-> <<"U", "n", "i", "m", "e", "d">>]

\* str.lower()
LowerText(text) == [k \in DOMAIN text |-> ToLower(text[k])]

\* str.split(): the words between the spaces
RECURSIVE SplitWords(_)
SplitWords(text) ==
    IF text = <<>> THEN <<>>
    ELSE IF IsSpace(Head(text)) THEN SplitWords(Tail(text))
    ELSE LET n == IF \E k \in DOMAIN text : IsSpace(text[k])
                  THEN (CHOOSE k \in DOMAIN text :
                            IsSpace(text[k]) /\ \A j \in 1..(k - 1) : ~IsSpace(text[j])) - 1
                  ELSE Len(text)
         IN <<SubSeq(text, 1, n)>> \o SplitWords(SubSeq(text, n + 1, Len(text)))

\* word in text
Contains(word, text) ==
    \E p \in 0..(Len(text) - Len(word)) : SubSeq(text, p + 1, p + Len(word)) = word

\* the name's words of at least the minimum length, in lower case
KeywordTokens(insurer_name) ==
    SelectSeq(SplitWords(LowerText(insurer_name)),
              LAMBDA word : Len(word) >= MinKeywordLength)

\* the item's title or description contains one of the name's words
ItemMentions(item, insurer_name) ==
    LET text == LowerText(item.title \o <<" ">> \o item.description)
        tokens == KeywordTokens(insurer_name)
    IN \E k \in DOMAIN tokens : Contains(tokens[k], text)

\* ItemMentions, tabulated over the items and names of the model
MentionsTable ==
    [kind \in DOMAIN ScoredTexts, name \in DOMAIN InsurerNames |->
        ItemMentions(ScoredTexts[kind], InsurerNames[name])]

Reverse(list) == [k \in DOMAIN list |-> list[Len(list) + 1 - k]]

_keyword_filter_reversed(items, insurer_name) ==
    Reverse(SelectSeq(items, LAMBDA item : MentionsTable[item.kind, insurer_name]))

\* RelevanceScorer._keyword_filter(items, insurer_name)
_keyword_filter(items, insurer_name) ==
    SelectSeq(items, LAMBDA item : MentionsTable[item.kind, insurer_name])

\* items[:max_results]
Take(list, n) == SubSeq(list, 1, Min(n, Len(list)))

\* the item lists score_batch may be given; id is the item's place in the list
ItemLists ==
    UNION {{[i \in 1..n |-> [id |-> i, kind |-> f[i]]] :
               f \in [1..n -> DOMAIN ScoredTexts]} : n \in 0..MaxScoredItems}

\* a RelevanceScorer with its configuration, and the arguments of score_batch
InitRelevance ==
    /\ scorer \in
           {[pc |-> "call", use_ai |-> use_ai, keyword_threshold |-> keyword_threshold,
             ai_batch_size |-> ai_batch_size, items |-> items,
             insurer_name |-> insurer_name, max_results |-> max_results,
             candidates |-> <<>>, pos |-> 0, kept |-> <<>>, result |-> <<>>] :
                use_ai \in BOOLEAN, keyword_threshold \in {0, 1},
                ai_batch_size \in 1..MaxAiBatchSize, items \in ItemLists,
                insurer_name \in DOMAIN InsurerNames,
                max_results \in 1..MaxScoredItems}
    /\ MatcherIdle
    /\ TokenIdle
    /\ ProcessorIdle
    /\ BatchIdle
    /\ PipelineIdle

\* score_batch up to the AI stage: the keyword filter, and the result when the
\* AI is disabled or the candidates do not exceed the threshold
ScoreBatch ==
    /\ scorer.pc = "call"
    /\ LET candidates == _keyword_filter(scorer.items, scorer.insurer_name)
       IN scorer' =
              IF scorer.items = <<>>
              THEN [scorer EXCEPT !.pc = "returned", !.result = <<>>]
              ELSE IF scorer.use_ai /\ Len(candidates) > scorer.keyword_threshold
              THEN [scorer EXCEPT !.pc = "ai", !.candidates = candidates]
              ELSE [scorer EXCEPT !.pc = "returned", !.candidates = candidates,
                                  !.result = Take(candidates, scorer.max_results)]
    /\ UNCHANGED <<bvars, pvars, matcher, token_manager, processor>>

\* what the AI may answer for a batch of n items: a verdict line for an item,
\* or no line for it; or the call fails
AiVerdicts(n) == [1..n -> {"relevant", "not_relevant", "missing"}] \cup {<<"error">>}

\* the response text of an answer
AiResponse(answer) ==
    LET lines == [i \in DOMAIN answer |-> <<NumberTokens[i], ":", answer[i]>>]
    IN SelectSeq(lines, LAMBDA line : line[3] # "missing")

\* one batch of the AI stage: the items the parsed response marks relevant are
\* kept; when the call fails every item of the batch is kept
AiScoreBatch(answer) ==
    /\ scorer.pc = "ai"
    /\ scorer.pos < Len(scorer.candidates)
    /\ LET last == Min(scorer.pos + scorer.ai_batch_size, Len(scorer.candidates))
           ai_batch == SubSeq(scorer.candidates, scorer.pos + 1, last)
           verdicts == IF answer = <<"error">>
                       THEN [i \in DOMAIN ai_batch |-> TRUE]
                       ELSE _parse_relevance_response(AiResponse(answer), Len(ai_batch))
           relevant == {i \in DOMAIN ai_batch : verdicts[i]}
       IN /\ answer \in AiVerdicts(Len(ai_batch))
          /\ scorer' = [scorer EXCEPT
                 !.kept = @ \o SelectSeq(ai_batch,
                                         LAMBDA item : \E i \in relevant : ai_batch[i] = item),
                 !.pos = last]
    /\ UNCHANGED <<bvars, pvars, matcher, token_manager, processor>>

\* score_batch returns the items the AI kept, limited to max_results
AiDone ==
    /\ scorer.pc = "ai"
    /\ scorer.pos >= Len(scorer.candidates)
    /\ scorer' = [scorer EXCEPT !.pc = "returned",
                                 !.result = Take(scorer.kept, scorer.max_results)]
    /\ UNCHANGED <<bvars, pvars, matcher, token_manager, processor>>

NextRelevance ==
    \/ ScoreBatch
    \/ \E answer \in UNION {AiVerdicts(n) : n \in 1..MaxAiBatchSize} :
           AiScoreBatch(answer)
    \/ AiDone

SpecRelevance == InitRelevance /\ [][NextRelevance]_vars

\* list holds items of the input only, each at most once, in the input's order
SubsequenceOfInput(list) ==
    \A k \in DOMAIN list :
        /\ list[k].id \in DOMAIN scorer.items
        /\ list[k] = scorer.items[list[k].id]
        /\ \A j \in 1..(k - 1) : list[j].id < list[k].id

\* C16: the keyword filter's candidates, the items the AI kept and the result
\* of score_batch are subsequences of the input, and an empty input gives an
\* empty result
C16_FilterOnlyRemoves ==
    /\ SubsequenceOfInput(scorer.candidates)
    /\ SubsequenceOfInput(scorer.kept)
    /\ SubsequenceOfInput(scorer.result)
    /\ (scorer.pc = "returned" /\ scorer.items = <<>>) => scorer.result = <<>>

\* of three items the keyword filter dropped the second and the AI the first
C16_Witness ==
    /\ scorer.pc = "returned"
    /\ scorer.use_ai
    /\ Len(scorer.items) = 3
    /\ Len(scorer.candidates) = 2
    /\ scorer.candidates[1].id = 1
    /\ scorer.candidates[2].id = 3
    /\ Len(scorer.result) = 1
    /\ scorer.result[1].id = 3

----------------------------------------------------------------------------
(* Further claims about the batch processor *)

\* a process_with_limit task of the gather has not finished yet
Pending(i) == task[i].st \in {"waiting", "scraping"}

\* C21: the BatchProgress is never changed while a scrape task is in flight:
\* every step that changes it is a step of process_insurers' own sequential
\* code, taken when no task of the batch is waiting or scraping, and no step of
\* a task changes it
C21_ProgressOnlyBetweenBatches ==
    [][(progress' # progress =>
            /\ pc \in {"call", "fold"}
            /\ task' = task
            /\ \A i \in 1..MaxInsurers : ~Pending(i))
       /\ (task' # task /\ pc = "gather" => progress' = progress)]_vars

\* a scrape of the second batch is in flight and the BatchProgress holds what
\* the first batch left in it
C21_Witness ==
    /\ InFlight # {}
    /\ progress.processed_insurers > 0
    /\ progress.processed_insurers = batch_start

\* total_batches = (len(insurers) + self.batch_size - 1) // self.batch_size
total_batches == (insurers + batch_size - 1) \div batch_size

\* C22: process_insurers sleeps once between consecutive batches and never
\* after the last: a run over N >= 1 entities that reaches the batch loop
\* returns after ceil(N/B) - 1 sleeps, the k-th sleep comes after batch k was
\* folded into the progress and before any entity of batch k+1 starts
C22_SleepsBetweenBatches ==
    /\ sleeps * batch_size <= progress.processed_insurers
    /\ \A i \in Entities : Started(i) \/ Pending(i) => sleeps >= BatchOf(i) - 1
    /\ insurers >= 1 => sleeps <= total_batches - 1
    /\ (pc = "returned" /\ insurers >= 1 /\ sources >= 1) => sleeps = total_batches - 1

\* a run over two batches has returned after one sleep
C22_Witness ==
    /\ pc = "returned"
    /\ total_batches = 2
    /\ sleeps = 1
    /\ progress.processed_insurers = insurers

\* the progress callback has been awaited for the current batch
CallbackDone == pc = "delay" \/ (pc = "returned" /\ insurers >= 1 /\ sources >= 1)

\* C23: a supplied progress callback is invoked once per batch, after the
\* batch is folded into the progress and before the sleep that follows it, and
\* its k-th invocation sees processed_insurers = min(k * batch_size, total);
\* without a callback nothing is invoked
C23_CallbackOncePerBatch ==
    /\ ~progress_callback => callbacks = <<>>
    /\ progress_callback =>
           /\ Len(callbacks) = IF CallbackDone THEN sleeps + 1 ELSE sleeps
           /\ \A k \in DOMAIN callbacks :
                  callbacks[k] = Min(k * batch_size, progress.total_insurers)
           /\ CallbackDone => callbacks[Len(callbacks)] = progress.processed_insurers

\* a run over two batches has returned after two callbacks
C23_Witness ==
    /\ pc = "returned"
    /\ progress_callback
    /\ Len(callbacks) = 2
    /\ callbacks[1] = batch_size
    /\ callbacks[2] = insurers

\* C24: in _scrape_insurer a source that raises does not end the entity's
\* scrape: whatever a source does, the next source in order is queried until
\* the last, the items collected so far are kept, and the entity's result
\* carries no error and is no exception, with no item when every source failed
C24_SourceFailureIsolated ==
    /\ [](\A i \in Entities :
             /\ task[i].st = "scraping" => task[i].src \in 1..sources
             /\ task[i].st = "result" =>
                    /\ task[i].src = sources
                    /\ task[i].all_failed => task[i].items = 0
             /\ task[i].st = "exception" => i \in malformed)
    /\ [](\A k \in DOMAIN results :
             results[k].insurer_id \notin malformed =>
                 /\ results[k].error = "None"
                 /\ results[k].items = task[results[k].insurer_id].items)
    /\ [][\A i \in 1..MaxInsurers :
             (task[i].st = "scraping" /\ task'[i] # task[i]) =>
                 /\ task'[i].items >= task[i].items
                 /\ \/ task'[i].st = "scraping" /\ task'[i].src = task[i].src + 1
                    \/ /\ task'[i].st = "result"
                       /\ task[i].src = sources
                       /\ task'[i].src = task[i].src]_vars

\* both sources raised for the first entity, and its result reached the fold
\* with no item and no error
C24_Witness ==
    /\ pc = "fold"
    /\ sources = 2
    /\ batch_start = 0
    /\ task[1].st = "result"
    /\ task[1].all_failed
    /\ results[1].error = "None"
    /\ results[1].items = 0

\* no entity has been given a task, no callback, sleep or storage write done
NothingScraped ==
    /\ \A i \in 1..MaxInsurers : task[i] = NoTask
    /\ results = <<>>
    /\ callbacks = <<>>
    /\ sleeps = 0
    /\ \A i \in 1..MaxInsurers : stored[i] = 0

\* C28: with an entity and no configured source process_insurers does not
\* raise and scrapes nothing: it returns processed_insurers = 0,
\* total_items_found = 0 and the error "No news sources configured"; with no
\* entity it returns processed_insurers = 0 and no error
C28_NoSourcesIsNotAnException ==
    /\ (insurers >= 1 /\ sources = 0) =>
           /\ pc \in {"call", "returned"}
           /\ NothingScraped
           /\ pc = "returned" =>
                  /\ progress.total_insurers = insurers
                  /\ progress.processed_insurers = 0
                  /\ progress.total_items_found = 0
                  /\ \E k \in DOMAIN progress.errors :
                         progress.errors[k].error = "No news sources configured"
    /\ insurers = 0 =>
           /\ pc \in {"call", "returned"}
           /\ NothingScraped
           /\ pc = "returned" =>
                  /\ progress.processed_insurers = 0
                  /\ progress.errors = <<>>

\* process_insurers has returned for two entities and no source
C28_Witness ==
    /\ pc = "returned"
    /\ insurers = 2
    /\ sources = 0
    /\ Len(progress.errors) = 1

\* the items of the results folded so far: the results of entities 1..n, in
\* which an entity whose scrape raised has no item
RECURSIVE FoldedItems(_)
FoldedItems(n) ==
    IF n = 0 THEN 0
    ELSE FoldedItems(n - 1) + (IF task[n].st = "exception" THEN 0 ELSE task[n].items)

\* C30: throughout a process_insurers run 0 <= processed_insurers <=
\* total_insurers, processed_insurers never decreases, and total_items_found
\* is the sum of the item counts of the entity results folded in so far
C30_ProgressCounters ==
    /\ [](/\ 0 <= progress.processed_insurers
          /\ progress.processed_insurers <= progress.total_insurers
          /\ pc # "call" => progress.total_insurers = insurers
          /\ \A i \in 1..progress.processed_insurers : Finished(i)
          /\ progress.total_items_found = FoldedItems(progress.processed_insurers))
    /\ [][progress'.processed_insurers >= progress.processed_insurers]_vars

\* two entities with an item each are folded, one after the other
C30_Witness ==
    /\ progress.processed_insurers = 2
    /\ progress.total_items_found = 2
    /\ task[1].items = 1
    /\ task[2].items = 1

----------------------------------------------------------------------------
(* BatchProcessor.__init__ *)

\* the largest value given to a constructor argument
MaxArgument == 3

\* Settings.batch_size, max_concurrent_sources and batch_delay_seconds
DefaultBatchSize == 30
DefaultMaxConcurrent == 3
DefaultDelaySeconds == 2

\* an optional argument: <<>> when omitted (None), <<v>> when v is supplied
Arguments == {<<>>} \cup {<<v>> : v \in 0..MaxArgument}

\* Python's "x or default": the default when x is None or falsy (0, 0.0)
Or(x, default) == IF x = <<>> THEN default ELSE IF x[1] = 0 THEN default ELSE x[1]

\* BatchProcessor(batch_size, max_concurrent, delay_seconds) is about to be called
InitProcessor ==
    /\ processor \in [pc : {"new"}, batch_size : Arguments,
                      max_concurrent : Arguments, delay_seconds : Arguments]
    /\ BatchIdle
    /\ PipelineIdle
    /\ MatcherIdle
    /\ ScorerIdle
    /\ TokenIdle

\* __init__: self.batch_size = batch_size or settings.batch_size, and so on
Construct ==
    /\ processor.pc = "new"
    /\ processor' = [pc |-> "constructed",
                     args |-> [batch_size |-> processor.batch_size,
                               max_concurrent |-> processor.max_concurrent,
                               delay_seconds |-> processor.delay_seconds],
                     batch_size |-> Or(processor.batch_size, DefaultBatchSize),
                     max_concurrent |-> Or(processor.max_concurrent, DefaultMaxConcurrent),
                     delay_seconds |-> Or(processor.delay_seconds, DefaultDelaySeconds)]
    /\ UNCHANGED <<bvars, pvars, matcher, scorer, token_manager>>

NextProcessor == Construct

SpecProcessor == InitProcessor /\ [][NextProcessor]_vars

\* the value the constructor is to use for an argument
Expected(x, default) == IF x = <<>> THEN default ELSE x[1]

\* C29: the constructed BatchProcessor holds every supplied value of
\* batch_size, max_concurrent and delay_seconds exactly as given, 0 included,
\* and a settings default only for an omitted argument
C29_SuppliedValuesUsed ==
    processor.pc = "constructed" =>
        /\ processor.batch_size = Expected(processor.args.batch_size, DefaultBatchSize)
        /\ processor.max_concurrent =
               Expected(processor.args.max_concurrent, DefaultMaxConcurrent)
        /\ processor.delay_seconds =
               Expected(processor.args.delay_seconds, DefaultDelaySeconds)

\* every supplied value other than 0 is used as given, and every omitted
\* argument takes its default
C29_NonZeroValuesUsed ==
    processor.pc = "constructed" =>
        \A a \in {"batch_size", "max_concurrent", "delay_seconds"} :
            processor.args[a] # <<0>> =>
                processor[a] = Expected(processor.args[a],
                                        CASE a = "batch_size" -> DefaultBatchSize
                                          [] a = "max_concurrent" -> DefaultMaxConcurrent
                                          [] a = "delay_seconds" -> DefaultDelaySeconds)

----------------------------------------------------------------------------
(* Further claims about the deterministic matcher *)

\* the insurer has a name or alias of at least 4 normalized characters that
\* occurs in the content as a word of its own
LongTermOccurs(insurer, content) ==
    \E word \in NormalizedTerms(insurer) :
        /\ Len(word) >= MinNameLength
        /\ OccursAsWord(word, content)

\* C26: every name and every alias of at least 4 normalized characters is
\* tested: an insurer is matched whenever such a name or alias of it occurs in
\* the text at word boundaries, also when its name is shorter than 4 characters
C26_LongAliasOfShortNameMatches ==
    matcher.pc = "matched" =>
        \A a, i \in 1..2 :
            (matcher.content[a] # <<>> /\
             LongTermOccurs(matcher.insurers[i], matcher.content[a]))
                => matcher.matched[a][i]

\* the same for the insurers whose normalized name has at least 4 characters
C26_LongNameEntitiesTested ==
    matcher.pc = "matched" =>
        \A a, i \in 1..2 :
            (/\ matcher.content[a] # <<>>
             /\ Len(_normalize_text(matcher.insurers[i].name)) >= MinNameLength
             /\ LongTermOccurs(matcher.insurers[i], matcher.content[a]))
                => matcher.matched[a][i]

----------------------------------------------------------------------------
(* Further claims about the pipeline *)

\* C27: there is a sentinel insurer per category: whatever runs came before,
\* the unmatched articles of a run for a category are stored under a sentinel
\* insurer of that category
C27_SentinelOfRunCategory ==
    ppc = "done" =>
        \A k \in DOMAIN articles :
            match_results[k].insurer_ids = <<>> =>
                \E m \in DOMAIN news_items :
                    /\ news_items[m].article = articles[k].id
                    /\ InsurerCategory(news_items[m].insurer_id) = category

\* in a database without a sentinel the unmatched articles are stored under a
\* sentinel of the run's category
C27_FirstRunSentinel ==
    [](sentinel = "none" =>
         [](ppc = "done" =>
              \A k \in DOMAIN articles :
                  match_results[k].insurer_ids = <<>> =>
                      /\ StoredFor(articles[k], general_insurer)
                      /\ InsurerCategory(general_insurer) = category))

\* C25: ai_match is invoked for an article at most once, and only when AI is
\* configured and the article has no deterministic match or more than 3; an
\* article with 1 to 3 deterministic matches never reaches the AI, and every
\* AI result comes from such an invocation
C25_AiOnlyOnAmbiguousTiers ==
    /\ Len(ai_calls) = Len(match_results)
    /\ \A k \in DOMAIN ai_calls :
           LET match_count == Len(_deterministic_match(articles[k], matching))
           IN /\ ai_calls[k] \in {0, 1}
              /\ ai_calls[k] = 1 =>
                     /\ ai_enabled
                     /\ match_count = 0 \/ match_count > MaxMultiMatches
              /\ (1 <= match_count /\ match_count <= MaxMultiMatches) => ai_calls[k] = 0
              /\ match_results[k].method = "ai_disambiguation" => ai_calls[k] = 1

\* with AI configured, a batch of an article with one deterministic match and
\* an article with none: the AI was asked about the second only
C25_Witness ==
    /\ ppc = "storing"
    /\ ai_enabled
    /\ Len(articles) = 2
    /\ Len(_deterministic_match(articles[1], matching)) = 1
    /\ Len(_deterministic_match(articles[2], matching)) = 0
    /\ ai_calls = <<0, 1>>

====
